---- MODULE Spec2Model ----
(***************************************************************************)
(* A model of src/src/harness.js: test_correctness drives a pattern under  *)
(* test once per permutation of action outcomes, records the calls the     *)
(* pattern makes and validates each recorded sequence against the valid    *)
(* sequences on a promise chain.                                           *)
(*                                                                         *)
(* The pattern under test is an input: its behaviour is a nondeterministic *)
(* choice, made anew in every scenario (a pattern may keep state between   *)
(* its invocations). Its activity in one scenario ends when it throws,     *)
(* when it returns a plain value, or when the deferred value it returned   *)
(* settles; its deferred continuations run at any time after               *)
(* test_correctness has returned, interleaved with the links of the        *)
(* promise chain.                                                          *)
(***************************************************************************)
EXTENDS Integers, Sequences, FiniteSets, TLC

\* The largest number of calls a pattern makes in one scenario.
MaxCalls == 2

(***************************************************************************)
(* Inputs: outcome producers are functions, compared by identity (id);     *)
(* their name is only diagnostic, so two producers may share it. Evaluated,*)
(* a producer returns a value, throws, or returns a deferred value that    *)
(* rejects (effect).                                                       *)
(***************************************************************************)
ok == [id |-> 1, name |-> "ok", effect |-> "returns"]
fail == [id |-> 2, name |-> "fail", effect |-> "throws"]
ok2 == [id |-> 3, name |-> "ok", effect |-> "rejects"]

\* action(name, ...outcomes)
action(name, outcomes) == [name |-> name, outcomes |-> outcomes]

\* The action's forEach: the arguments its callback receives, in order.
forEach(a) == [i \in 1..Len(a.outcomes) |-> [name |-> a.name, outcome |-> a.outcomes[i]]]

\* The actions of the inputs.
A_ == action("A", <<ok, fail>>)
B_ == action("B", <<ok>>)
A1_ == action("A", <<ok>>)
A2_ == action("A", <<ok, ok2>>)
A0_ == action("A", <<>>)
A3_ == action("A", <<ok, fail, ok2>>)

\* The arguments (actions, valid_sequences) Init draws. A template is a list
\* of entries <<action>> (any outcome) or <<action, outcome, ...>>.
Inputs ==
  { << <<>>, <<>> >>,
    << <<>>, << <<>> >> >>,
    << <<A_>>, << <<>> >> >>,
    << <<A_>>, << << <<A_>> >> >> >>,
    << <<A_>>, << << <<A_, ok>> >>, << <<A_, fail>>, <<A_, fail>> >> >> >>,
    << <<A2_>>, << << <<A_, ok>> >> >> >>,
    << <<A1_, B_>>, << << <<A_, ok>>, <<B_>> >>, << <<B_>>, <<A_, fail>> >> >> >>,
    << <<A_, B_>>, << << <<A_, ok>>, <<B_>> >> >> >>,
    << <<A_, B_>>, << << <<A_, ok>>, <<B_>> >>, << <<A_, fail>> >> >> >>,
    << <<A0_>>, << <<>> >> >>,
    << <<B_, A0_>>, <<>> >> }

\* Arguments whose valid_sequences hold an entry <<>> that names no action.
FaultInputs ==
  { << <<A_>>, << << <<A_, fail>> >>, << <<A_>>, <<>> >> >> >>,
    << <<A_>>, << << <<>> >>, << <<A_>> >> >> >>,
    << <<A_, B_>>, << << <<A_, ok>>, <<>> >>, << <<A_, fail>> >> >> >>,
    << <<A3_>>, << << <<A_, fail>> >>, << <<A_>>, <<>> >> >> >> }

\* A variant that nests the other way round: the first action's outcome
\* varies fastest.
RECURSIVE all_permutations_first_fastest(_)
all_permutations_first_fastest(args) ==
  IF Len(args) = 0
  THEN << <<>> >>
  ELSE LET permutations == forEach(args[1])
           rest == all_permutations_first_fastest(Tail(args))
           inner(tail) == [i \in 1..Len(permutations) |-> <<permutations[i]>> \o tail]
           outer[j \in 1..(Len(rest) + 1)] ==
             IF j > Len(rest) THEN <<>>
             ELSE inner(rest[j]) \o outer[j + 1]
       IN outer[1]

\* A variant whose recursion never delivers the last combination.
RECURSIVE all_permutations_drop_last(_)
all_permutations_drop_last(args) ==
  IF Len(args) = 0
  THEN << <<>> >>
  ELSE LET permutations == forEach(args[1])
           rest == all_permutations_drop_last(Tail(args))
           inner(permutation) == [j \in 1..Len(rest) |-> <<permutation>> \o rest[j]]
           outer[i \in 1..(Len(permutations) + 1)] ==
             IF i > Len(permutations) THEN <<>>
             ELSE inner(permutations[i]) \o outer[i + 1]
           all == outer[1]
       IN IF Len(args) > 1 /\ Len(all) > 1 THEN SubSeq(all, 1, Len(all) - 1) ELSE all

\* A variant that leaves an action without outcomes out of the product.
RECURSIVE all_permutations_skip_empty(_)
all_permutations_skip_empty(args) ==
  IF Len(args) = 0
  THEN << <<>> >>
  ELSE IF Len(args[1].outcomes) = 0
  THEN all_permutations_skip_empty(Tail(args))
  ELSE LET permutations == forEach(args[1])
           rest == all_permutations_skip_empty(Tail(args))
           inner(permutation) == [j \in 1..Len(rest) |-> <<permutation>> \o rest[j]]
           outer[i \in 1..(Len(permutations) + 1)] ==
             IF i > Len(permutations) THEN <<>>
             ELSE inner(permutations[i]) \o outer[i + 1]
       IN outer[1]

(***************************************************************************)
(* all_permutations: the permutations in the order the callback gets them. *)
(***************************************************************************)
RECURSIVE all_permutations(_)
all_permutations(args) ==
  IF Len(args) = 0
  THEN << <<>> >>
  ELSE LET permutations == forEach(args[1])
           rest == all_permutations(Tail(args))
           inner(permutation) == [j \in 1..Len(rest) |-> <<permutation>> \o rest[j]]
           outer[i \in 1..(Len(permutations) + 1)] ==
             IF i > Len(permutations) THEN <<>>
             ELSE inner(permutations[i]) \o outer[i + 1]
       IN outer[1]

(***************************************************************************)
(* The sequence validator. A result is "true", "false" or "throw" (reading *)
(* .name of the missing first element of an entry throws a TypeError).     *)
(***************************************************************************)
RECURSIVE action_fits_loop(_, _, _)
action_fits_loop(action_taken, valid_action, outcome_idx) ==
  IF outcome_idx > Len(valid_action) THEN FALSE
  ELSE IF valid_action[outcome_idx] = action_taken.outcome THEN TRUE
  ELSE action_fits_loop(action_taken, valid_action, outcome_idx + 1)

\* A variant without the shortcut for an entry that lists no outcomes.
action_fits_no_wildcard(action_taken, valid_action) ==
  action_fits_loop(action_taken, valid_action, 2)

\* A variant that compares outcomes by their name, not by identity.
action_fits_by_name(action_taken, valid_action) ==
  \/ Len(valid_action) = 1
  \/ \E idx \in 2..Len(valid_action) : valid_action[idx].name = action_taken.outcome.name

action_fits_pattern(action_taken, valid_action) ==
  IF Len(valid_action) = 1 THEN TRUE
  ELSE action_fits_loop(action_taken, valid_action, 2)

RECURSIVE sequence_fits_loop(_, _, _)
sequence_fits_loop(sequence_, valid_sequence, i) ==
  IF i > Len(sequence_) THEN "true"
  ELSE LET action_taken == sequence_[i]
           valid_action == valid_sequence[i]
       IN IF Len(valid_action) = 0 THEN "throw"
          ELSE IF action_taken.name # valid_action[1].name THEN "false"
          ELSE IF ~action_fits_pattern(action_taken, valid_action) THEN "false"
          ELSE sequence_fits_loop(sequence_, valid_sequence, i + 1)

\* A variant that only rejects a sequence longer than the template.
sequence_fits_prefix(sequence_, valid_sequence) ==
  IF Len(sequence_) > Len(valid_sequence) THEN "false"
  ELSE sequence_fits_loop(sequence_, valid_sequence, 1)

sequence_fits_pattern(sequence_, valid_sequence) ==
  IF Len(sequence_) # Len(valid_sequence) THEN "false"
  ELSE sequence_fits_loop(sequence_, valid_sequence, 1)

RECURSIVE is_valid_loop(_, _, _, _)
is_valid_loop(sequence_, valid_seqs, t, is_valid) ==
  IF t > Len(valid_seqs) THEN (IF is_valid THEN "true" ELSE "false")
  ELSE LET fits == sequence_fits_pattern(sequence_, valid_seqs[t])
       IN IF fits = "throw" THEN "throw"
          ELSE is_valid_loop(sequence_, valid_seqs, t + 1, is_valid \/ fits = "true")

is_valid_sequence(sequence_, valid_seqs) ==
  is_valid_loop(sequence_, valid_seqs, 1, FALSE)

\* describe_permutation: each action name with the name of its chosen outcome.
describe_permutation(permutation) ==
  [i \in 1..Len(permutation) |-> <<permutation[i].name, permutation[i].outcome.name>>]

\* sequence.map((s)=>s.name)
sequence_names(sequence_) == [i \in 1..Len(sequence_) |-> sequence_[i].name]

\* The failure entry pushed for an invalid scenario.
failure_entry(permutation, sequence_) ==
  [scenario |-> describe_permutation(permutation), sequence |-> sequence_names(sequence_)]

(***************************************************************************)
(* State                                                                   *)
(***************************************************************************)
VARIABLES
  actions,          \* argument of test_correctness
  valid_sequences,  \* argument of test_correctness
  perms,            \* the permutations all_permutations delivers, in order
  chained,          \* permutations the all_permutations callback has handled
  returned,         \* test_correctness has returned its promise
  sequence,         \* per scenario: the calls recorded
  ncalls,           \* per scenario: invocations of its tracked callables
  called,           \* per scenario: the argument positions invoked, in call order
  result,           \* per scenario: what the pattern returned, and its state
  settled,          \* links of the `outcome` chain that have run
  outcome,          \* state and value of the last settled link of the chain
  verdict,          \* per scenario: what is_valid_sequence gave its validation
  seen,             \* per scenario: the sequence its validation step read
  failures,         \* the failure entries
  again,            \* test_correctness has been called a second time
  previous          \* the first call's Result and what its validations read

vars == <<actions, valid_sequences, perms, chained, returned, sequence, ncalls, called,
          result, settled, outcome, verdict, seen, failures, again, previous>>

NPerms == Len(perms)
Scenarios == 1..NPerms

\* Values a promise of the chain carries.
Undefined == [kind |-> "undefined", passed |-> FALSE, description |-> <<>>]
TypeError == [kind |-> "error", passed |-> FALSE, description |-> <<>>]
\* A variant whose report never passes.
Report_never_passed(fs) == [kind |-> "report", passed |-> FALSE, description |-> fs]
Report(fs) == [kind |-> "report", passed |-> Len(fs) = 0, description |-> fs]

\* The chain has 2 links per scenario, then the report link and the catch link.
NLinks == 2 * NPerms + 2
Done == returned /\ settled = NLinks

\* No earlier call of test_correctness.
NoCall == [result |-> Undefined, seen |-> <<>>]

Init ==
  /\ \E input \in Inputs : actions = input[1] /\ valid_sequences = input[2]
  /\ perms = all_permutations(actions)
  /\ chained = 0
  /\ returned = FALSE
  /\ sequence = [k \in Scenarios |-> <<>>]
  /\ ncalls = [k \in Scenarios |-> 0]
  /\ called = [k \in Scenarios |-> <<>>]
  /\ result = [k \in Scenarios |-> "none"]
  /\ settled = 0
  /\ outcome = [state |-> "fulfilled", value |-> Undefined]
  /\ verdict = [k \in Scenarios |-> "none"]
  /\ seen = [k \in Scenarios |-> <<>>]
  /\ failures = <<>>
  /\ again = FALSE
  /\ previous = NoCall

\* A variant that pushes the record after evaluating the outcome: a
\* throwing outcome leaves no record.
tracked_call_after_outcome(seqs, k, i) ==
  IF perms[k][i].outcome.effect = "throws" THEN seqs
  ELSE [seqs EXCEPT ![k] = Append(@, perms[k][i])]

\* A variant with one sequence shared by all scenarios (the first one's).
tracked_call_shared(seqs, k, i) == [seqs EXCEPT ![1] = Append(@, perms[k][i])]

(***************************************************************************)
(* The tracked callable args[i] of scenario k: push the permutation's      *)
(* entry to the scenario's own sequence, then evaluate the outcome.        *)
(***************************************************************************)
tracked_call(seqs, k, i) == [seqs EXCEPT ![k] = Append(@, perms[k][i])]

RECURSIVE tracked_calls(_, _, _)
tracked_calls(seqs, k, calls) ==
  IF Len(calls) = 0 THEN seqs
  ELSE tracked_calls(tracked_call(seqs, k, Head(calls)), k, Tail(calls))

\* The calls a pattern can make synchronously: lists of argument positions.
CallSeqs == UNION {[1..n -> 1..Len(actions)] : n \in 0..MaxCalls}

\* How the synchronous invocation of the pattern ends: it throws (result
\* stays null), returns a plain value, or returns a deferred value that is
\* pending and will settle, or that never settles.
PatternEnds == {"threw", "plain", "pending", "never"}

\* A variant without the try/catch around the pattern: a throw of the
\* pattern leaves the loop, and no later permutation is run.
RunScenario_no_catch(k) ==
  /\ ~returned
  /\ k = chained + 1
  /\ k <= NPerms
  /\ \E calls \in CallSeqs, end \in PatternEnds :
       /\ sequence' = tracked_calls(sequence, k, calls)
       /\ ncalls' = [ncalls EXCEPT ![k] = Len(calls)]
       /\ called' = [called EXCEPT ![k] = calls]
       /\ result' = [result EXCEPT ![k] = end]
       /\ chained' = IF end = "threw" THEN NPerms ELSE k
  /\ UNCHANGED <<actions, valid_sequences, perms, returned, settled,
                 outcome, verdict, failures, seen, again, previous>>

\* The callback test_correctness gives all_permutations, for permutation k:
\* fresh sequence, tracked callables, the pattern's synchronous run inside
\* try/catch, wait_for(result) evaluated, and two links chained to outcome.
RunScenario(k) ==
  /\ ~returned
  /\ k = chained + 1
  /\ k <= NPerms
  /\ \E calls \in CallSeqs, end \in PatternEnds :
       /\ sequence' = tracked_calls(sequence, k, calls)
       /\ ncalls' = [ncalls EXCEPT ![k] = Len(calls)]
       /\ called' = [called EXCEPT ![k] = calls]
       /\ result' = [result EXCEPT ![k] = end]
  /\ chained' = k
  /\ UNCHANGED <<actions, valid_sequences, perms, returned, settled,
                 outcome, verdict, failures, seen, again, previous>>

\* A variant that returns the promise before all_permutations is through.
Return_early ==
  /\ ~returned
  /\ returned' = TRUE
  /\ UNCHANGED <<actions, valid_sequences, perms, chained, sequence,
                 ncalls, result, settled, outcome, verdict, failures,
                 seen, called, again, previous>>

\* all_permutations has returned: the report and catch links are chained
\* and the promise is returned to the caller.
Return ==
  /\ ~returned
  /\ chained = NPerms
  /\ returned' = TRUE
  /\ UNCHANGED <<actions, valid_sequences, perms, chained, sequence,
                 ncalls, result, settled, outcome, verdict, failures,
                 seen, called, again, previous>>

\* A deferred continuation of the pattern of scenario k calls args[i].
PatternCall(k, i) ==
  /\ returned
  /\ result[k] \in {"pending", "never"}
  /\ ncalls[k] < MaxCalls
  /\ sequence' = tracked_call(sequence, k, i)
  /\ ncalls' = [ncalls EXCEPT ![k] = @ + 1]
  /\ called' = [called EXCEPT ![k] = Append(@, i)]
  /\ UNCHANGED <<actions, valid_sequences, perms, chained, returned,
                 result, settled, outcome, verdict, failures, seen,
                 again, previous>>

\* The deferred value the pattern returned in scenario k settles.
Settle(k, how) ==
  /\ returned
  /\ result[k] = "pending"
  /\ result' = [result EXCEPT ![k] = how]
  /\ UNCHANGED <<actions, valid_sequences, perms, chained, returned,
                 sequence, ncalls, settled, outcome, verdict,
                 failures, seen, called, again, previous>>

\* wait_for(result): Promise.resolve(result).then(resolve).catch(resolve)
\* resolves the promise it makes once result is no promise (null after a
\* throw, or a plain value) or has settled, either way.
wait_for(k) ==
  IF result[k] \in {"threw", "plain", "fulfilled", "rejected"} THEN "resolved" ELSE "pending"

\* A variant whose handler returns the pattern's own deferred value,
\* outcome.then(() => result): the link settles as result does.
ThenWaitFor_adopts(k) ==
  /\ returned
  /\ settled = 2 * (k - 1)
  /\ result[k] \notin {"pending", "never"}
  /\ settled' = settled + 1
  /\ outcome' = IF outcome.state = "fulfilled" /\ result[k] = "rejected"
                THEN [state |-> "rejected", value |-> TypeError]
                ELSE outcome
  /\ UNCHANGED <<actions, valid_sequences, perms, chained, returned,
                 sequence, ncalls, result, verdict, failures, seen,
                 called, again, previous>>

\* The link outcome.then(wait_for(result)) of scenario k. Its argument is a
\* promise, not a function, so `then` ignores it: the link settles as its
\* predecessor did, whatever wait_for(k) is.
ThenWaitFor(k) ==
  /\ returned
  /\ settled = 2 * (k - 1)
  /\ settled' = settled + 1
  /\ UNCHANGED <<actions, valid_sequences, perms, chained, returned,
                 sequence, ncalls, result, outcome, verdict,
                 failures, seen, called, again, previous>>

\* A variant whose validation is not chained to `outcome`
\* (Promise.resolve().then(...)): it runs whenever its own tick comes.
ThenValidate_unchained(k) ==
  /\ returned
  /\ verdict[k] = "none"
  /\ LET is_valid == is_valid_sequence(sequence[k], valid_sequences)
     IN /\ verdict' = [verdict EXCEPT ![k] = is_valid]
        /\ seen' = [seen EXCEPT ![k] = sequence[k]]
        /\ failures' = IF is_valid = "false"
                       THEN Append(failures, failure_entry(perms[k], sequence[k]))
                       ELSE failures
  /\ UNCHANGED <<actions, valid_sequences, perms, chained, returned,
                 sequence, ncalls, result, settled, outcome, called,
                 again, previous>>

\* A variant whose handler also runs when its predecessor is rejected.
ThenValidate_no_skip(k) ==
  /\ returned
  /\ settled = 2 * k - 1
  /\ settled' = settled + 1
  /\ LET is_valid == is_valid_sequence(sequence[k], valid_sequences)
     IN /\ verdict' = [verdict EXCEPT ![k] = is_valid]
        /\ seen' = [seen EXCEPT ![k] = sequence[k]]
        /\ outcome' = IF is_valid = "throw"
                      THEN [state |-> "rejected", value |-> TypeError]
                      ELSE [state |-> "fulfilled", value |-> Undefined]
        /\ failures' = IF is_valid = "false"
                       THEN Append(failures, failure_entry(perms[k], sequence[k]))
                       ELSE failures
  /\ UNCHANGED <<actions, valid_sequences, perms, chained, returned,
                 sequence, ncalls, result, called, again, previous>>

\* The validation link of scenario k. A rejected predecessor skips the
\* handler; a throw of is_valid_sequence rejects the link.
ThenValidate(k) ==
  /\ returned
  /\ settled = 2 * k - 1
  /\ settled' = settled + 1
  /\ IF outcome.state = "rejected"
     THEN UNCHANGED <<outcome, verdict, seen, failures>>
     ELSE LET is_valid == is_valid_sequence(sequence[k], valid_sequences)
          IN /\ verdict' = [verdict EXCEPT ![k] = is_valid]
             /\ seen' = [seen EXCEPT ![k] = sequence[k]]
             /\ outcome' = IF is_valid = "throw"
                           THEN [state |-> "rejected", value |-> TypeError]
                           ELSE [state |-> "fulfilled", value |-> Undefined]
             /\ failures' = IF is_valid = "false"
                            THEN Append(failures, failure_entry(perms[k], sequence[k]))
                            ELSE failures
  /\ UNCHANGED <<actions, valid_sequences, perms, chained, returned,
                 sequence, ncalls, result, called, again, previous>>

\* The link that computes the report from failures.
ThenReport ==
  /\ returned
  /\ settled = 2 * NPerms
  /\ settled' = settled + 1
  /\ outcome' = IF outcome.state = "rejected" THEN outcome
                ELSE [state |-> "fulfilled", value |-> Report(failures)]
  /\ UNCHANGED <<actions, valid_sequences, perms, chained, returned,
                 sequence, ncalls, result, verdict, failures, seen,
                 called, again, previous>>

\* A variant without the catch handler: the link settles as its predecessor.
Catch_absent ==
  /\ returned
  /\ settled = 2 * NPerms + 1
  /\ settled' = settled + 1
  /\ UNCHANGED <<actions, valid_sequences, perms, chained, returned,
                 sequence, ncalls, result, outcome, verdict, failures, seen,
                 called, again, previous>>

\* The catch link: a rejection becomes the fulfilment value.
Catch ==
  /\ returned
  /\ settled = 2 * NPerms + 1
  /\ settled' = settled + 1
  /\ outcome' = [state |-> "fulfilled", value |-> outcome.value]
  /\ UNCHANGED <<actions, valid_sequences, perms, chained, returned,
                 sequence, ncalls, result, verdict, failures, seen,
                 called, again, previous>>

Next ==
  \/ \E k \in Scenarios : RunScenario(k)
  \/ Return
  \/ \E k \in Scenarios : \E i \in 1..Len(actions) : PatternCall(k, i)
  \/ \E k \in Scenarios : \E how \in {"fulfilled", "rejected"} : Settle(k, how)
  \/ \E k \in Scenarios : ThenWaitFor(k)
  \/ \E k \in Scenarios : ThenValidate(k)
  \/ ThenReport
  \/ Catch

Spec == Init /\ [][Next]_vars

\* The same program on arguments that make a validation step throw.
InitFault ==
  /\ \E input \in FaultInputs : actions = input[1] /\ valid_sequences = input[2]
  /\ perms = all_permutations(actions)
  /\ chained = 0
  /\ returned = FALSE
  /\ sequence = [k \in Scenarios |-> <<>>]
  /\ ncalls = [k \in Scenarios |-> 0]
  /\ called = [k \in Scenarios |-> <<>>]
  /\ result = [k \in Scenarios |-> "none"]
  /\ settled = 0
  /\ outcome = [state |-> "fulfilled", value |-> Undefined]
  /\ verdict = [k \in Scenarios |-> "none"]
  /\ seen = [k \in Scenarios |-> <<>>]
  /\ failures = <<>>
  /\ again = FALSE
  /\ previous = NoCall

SpecFault == InitFault /\ [][Next]_vars

(***************************************************************************)
(* all_permutations on its own: action lists of up to MaxActions actions   *)
(* with up to MaxOutcomes outcomes each, no template (every scenario is    *)
(* reported), and a pattern that calls nothing and returns undefined.      *)
(***************************************************************************)
MaxActions == 3
MaxOutcomes == 2

other == [id |-> 4, name |-> "other", effect |-> "returns"]
OutcomePool == <<ok, fail, ok2, other>>
ActionNames == <<"A", "B", "C", "D">>

ActionLists ==
  UNION { { [i \in 1..n |-> action(ActionNames[i], SubSeq(OutcomePool, 1, c[i]))]
            : c \in [1..n -> 0..MaxOutcomes] }
          : n \in 0..MaxActions }

InitPerms ==
  /\ actions \in ActionLists
  /\ valid_sequences = <<>>
  /\ perms = all_permutations(actions)
  /\ chained = 0
  /\ returned = FALSE
  /\ sequence = [k \in Scenarios |-> <<>>]
  /\ ncalls = [k \in Scenarios |-> 0]
  /\ called = [k \in Scenarios |-> <<>>]
  /\ result = [k \in Scenarios |-> "none"]
  /\ settled = 0
  /\ outcome = [state |-> "fulfilled", value |-> Undefined]
  /\ verdict = [k \in Scenarios |-> "none"]
  /\ seen = [k \in Scenarios |-> <<>>]
  /\ failures = <<>>
  /\ again = FALSE
  /\ previous = NoCall

\* all_permutations invokes the callback with permutation k; the pattern
\* calls nothing and returns undefined.
Deliver(k) ==
  /\ ~returned
  /\ k = chained + 1
  /\ k <= NPerms
  /\ chained' = k
  /\ result' = [result EXCEPT ![k] = "plain"]
  /\ UNCHANGED <<actions, valid_sequences, perms, returned, sequence, ncalls,
                 called, settled, outcome, verdict, failures, seen, again,
                 previous>>

NextPerms ==
  \/ \E k \in Scenarios : Deliver(k)
  \/ Return
  \/ \E k \in Scenarios : ThenWaitFor(k)
  \/ \E k \in Scenarios : ThenValidate(k)
  \/ ThenReport
  \/ Catch

SpecPerms == InitPerms /\ [][NextPerms]_vars

(***************************************************************************)
(* test_correctness called a second time with the same arguments, once the *)
(* promise of the first call has settled.                                  *)
(***************************************************************************)
TwiceInputs ==
  { << <<A_>>, << << <<A_, ok>> >>, << <<A_, fail>>, <<A_, fail>> >> >> >>,
    << <<A1_, B_>>, << << <<A1_, ok>>, <<B_>> >> >> >> }

InitTwice ==
  /\ \E input \in TwiceInputs : actions = input[1] /\ valid_sequences = input[2]
  /\ perms = all_permutations(actions)
  /\ chained = 0
  /\ returned = FALSE
  /\ sequence = [k \in Scenarios |-> <<>>]
  /\ ncalls = [k \in Scenarios |-> 0]
  /\ called = [k \in Scenarios |-> <<>>]
  /\ result = [k \in Scenarios |-> "none"]
  /\ settled = 0
  /\ outcome = [state |-> "fulfilled", value |-> Undefined]
  /\ verdict = [k \in Scenarios |-> "none"]
  /\ seen = [k \in Scenarios |-> <<>>]
  /\ failures = <<>>
  /\ again = FALSE
  /\ previous = NoCall

\* A variant whose failures list is shared by the calls (a module-level
\* list that is never emptied).
CallAgain_shared_failures ==
  /\ ~again
  /\ Done
  /\ again' = TRUE
  /\ previous' = [result |-> outcome.value, seen |-> seen]
  /\ chained' = 0
  /\ returned' = FALSE
  /\ sequence' = [k \in Scenarios |-> <<>>]
  /\ ncalls' = [k \in Scenarios |-> 0]
  /\ called' = [k \in Scenarios |-> <<>>]
  /\ result' = [k \in Scenarios |-> "none"]
  /\ settled' = 0
  /\ outcome' = [state |-> "fulfilled", value |-> Undefined]
  /\ verdict' = [k \in Scenarios |-> "none"]
  /\ seen' = [k \in Scenarios |-> <<>>]
  /\ UNCHANGED <<actions, valid_sequences, perms, failures>>

\* The second call: its locals are fresh (outcome = Promise.resolve(),
\* failures = [], a new sequence per scenario); the Result of the first
\* call and what its validations saw are kept for comparison.
CallAgain ==
  /\ ~again
  /\ Done
  /\ again' = TRUE
  /\ previous' = [result |-> outcome.value, seen |-> seen]
  /\ chained' = 0
  /\ returned' = FALSE
  /\ sequence' = [k \in Scenarios |-> <<>>]
  /\ ncalls' = [k \in Scenarios |-> 0]
  /\ called' = [k \in Scenarios |-> <<>>]
  /\ result' = [k \in Scenarios |-> "none"]
  /\ settled' = 0
  /\ outcome' = [state |-> "fulfilled", value |-> Undefined]
  /\ verdict' = [k \in Scenarios |-> "none"]
  /\ seen' = [k \in Scenarios |-> <<>>]
  /\ failures' = <<>>
  /\ UNCHANGED <<actions, valid_sequences, perms>>

NextTwice ==
  \/ Next
  \/ CallAgain

SpecTwice == InitTwice /\ [][NextTwice]_vars

\* The value test_correctness's promise is fulfilled with.
Result == outcome.value

(***************************************************************************)
(* Properties                                                              *)
(***************************************************************************)
Range(s) == {s[i] : i \in 1..Len(s)}
Started(k) == result[k] # "none"
Validated(k) == verdict[k] # "none"
\* The pattern's activity in scenario k is over: its call order is complete.
Complete(k) == result[k] \in {"threw", "plain", "fulfilled", "rejected"}
Unsettled(k) == result[k] \in {"pending", "never"}
IsValid(k) == is_valid_sequence(sequence[k], valid_sequences)

\* C1 (as claimed): the validation step of scenario k runs only after the
\* value the pattern returned for scenario k has settled; it never runs
\* while that value is still pending.
C1_ValidationAfterSettlement ==
  \A k \in Scenarios : Validated(k) => wait_for(k) = "resolved"

C3_NeverSettlingStalls ==
  (\E k \in Scenarios : result[k] = "never") => ~Done

\* C4 (as claimed): if in every permutation the complete order in which the
\* pattern calls the actions matches one of valid_sequences, the Result is
\* {passed: true}, whether the calls are synchronous or deferred.
C4_ValidOrdersPass ==
  (Done /\ \A k \in Scenarios : Complete(k) /\ IsValid(k) = "true")
    => (Result.kind = "report" /\ Result.passed)

\* C5: the Result is computed only after the validation step of every
\* scenario has run, the chain settles once, and the Result is
\* {passed: true} exactly when no failure was recorded and otherwise
\* {passed: false, description} with the failures recorded.
C5_ReportAfterAllValidations ==
  /\ settled <= NLinks
  /\ outcome.value.kind = "report" =>
       /\ \A k \in Scenarios : Validated(k)
       /\ outcome.value.passed <=> (Len(failures) = 0)
       /\ outcome.value.description = failures
  /\ Done => Result.kind = "report"
  /\ ~Done => outcome.value.kind \in {"undefined", "report"}

C5_Witness ==
  /\ Done
  /\ ~Result.passed
  /\ Len(Result.description) = 1
  /\ NPerms = 2

\* C6: is_valid_sequence is true exactly when some template has the length
\* of the sequence and, at every position, names the action of the call
\* and either lists no outcomes or lists an outcome identical to the
\* call's; with no such template (or no template at all) it is false.
Fits(S, T) ==
  /\ Len(S) = Len(T)
  /\ \A i \in 1..Len(S) :
       /\ S[i].name = T[i][1].name
       /\ \/ Len(T[i]) = 1
          \/ \E j \in 2..Len(T[i]) : T[i][j].id = S[i].outcome.id

C6_ValidIffSomeTemplateFits ==
  \A k \in Scenarios :
    IsValid(k) = IF \E t \in 1..Len(valid_sequences) : Fits(sequence[k], valid_sequences[t])
                 THEN "true" ELSE "false"

C6_Witness ==
  \E k \in Scenarios :
    /\ Len(sequence[k]) = 2
    /\ IsValid(k) = "true"
    /\ Len(valid_sequences) = 2

\* C7 (as claimed): a mismatch never aborts the run, every scenario is
\* validated once and each mismatching one adds one failure entry, in
\* order; hence a pattern whose call order matches no template in any
\* permutation yields {passed: false} with one entry per permutation.
C7_InvalidOrdersAllReported ==
  (Done /\ \A k \in Scenarios : Complete(k) /\ IsValid(k) = "false")
    => /\ \A k \in Scenarios : Validated(k)
       /\ Result.kind = "report"
       /\ Len(Result.description) = NPerms
       /\ Result.passed <=> (NPerms = 0)

\* C8: a synchronous throw of the pattern is discarded: the scenario is
\* validated against the sequence recorded before the throw, the remaining
\* scenarios still run and are validated, and the Result is a report; a
\* pattern that throws before any call passes when valid_sequences holds
\* the empty template.
C8_SynchronousThrowIsDiscarded ==
  /\ \A k \in Scenarios :
       result[k] = "threw" =>
         /\ returned => \A j \in Scenarios : Started(j)
         /\ Done => \A j \in Scenarios : Validated(j)
         /\ Validated(k) => verdict[k] = IsValid(k)
         /\ Len(sequence[k]) = ncalls[k]
         /\ (Validated(k) /\ sequence[k] = <<>> /\ <<>> \in Range(valid_sequences))
              => verdict[k] = "true"
  /\ Done => Result.kind = "report"
  /\ (Done /\ <<>> \in Range(valid_sequences)
           /\ \A k \in Scenarios : result[k] = "threw" /\ sequence[k] = <<>>)
       => Result.passed

C8_Witness ==
  /\ Done
  /\ NPerms = 2
  /\ result[1] = "threw" /\ sequence[1] = <<>> /\ verdict[1] = "true"
  /\ result[2] = "threw" /\ Len(sequence[2]) = 1 /\ verdict[2] = "false"
  /\ Result.description = <<failure_entry(perms[2], sequence[2])>>

\* C9: whether the deferred value the pattern returned fulfils or rejects
\* has no effect: the verdict of a validation step and the failure entry
\* it adds are determined by the recorded sequence alone, failures change
\* in no other step, and the Result is the report of those failures; a
\* rejection never becomes the Result.
C9_SettlementKindIsIgnored ==
  /\ [](Done => (Result.kind = "report" /\ Result.description = failures))
  /\ [][\A k \in Scenarios :
          verdict'[k] # verdict[k] =>
            /\ verdict'[k] = IsValid(k)
            /\ failures' = IF IsValid(k) = "false"
                           THEN Append(failures, failure_entry(perms[k], sequence[k]))
                           ELSE failures]_vars
  /\ [][failures' # failures => \E k \in Scenarios : verdict'[k] # verdict[k]]_vars

C9_Witness ==
  /\ Done
  /\ Result.passed
  /\ \E k \in Scenarios : result[k] = "rejected" /\ Validated(k)
  /\ \E k \in Scenarios : result[k] = "fulfilled" /\ Validated(k)

\* C10: each scenario's sequence is private to it: it holds one record per
\* call made through the scenario's own tracked callables, each the entry
\* of the scenario's own permutation, whatever the interleaving of the
\* scenarios' deferred continuations.
C10_SequenceIsPrivate ==
  \A k \in Scenarios :
    /\ Len(sequence[k]) = ncalls[k]
    /\ \A j \in 1..Len(sequence[k]) : sequence[k][j] \in Range(perms[k])
    /\ ~Started(k) => sequence[k] = <<>>

C10_Witness ==
  /\ NPerms = 2
  /\ returned
  /\ Unsettled(1) /\ Unsettled(2)
  /\ ncalls[1] = MaxCalls /\ ncalls[2] = MaxCalls
  /\ sequence[1] # sequence[2]

\* C11: if a validation step throws, the promise test_correctness returned
\* still fulfils, never rejects, and its value is the error itself, not a
\* report.
Threw(k) == verdict[k] = "throw"

C11_FaultBecomesTheResult ==
  /\ (\E k \in Scenarios : Threw(k)) =>
       /\ outcome.value = TypeError
       /\ ~Done => outcome.state = "rejected"
  /\ Done =>
       /\ outcome.state = "fulfilled"
       /\ (Result.kind = "error") <=> (\E k \in Scenarios : Threw(k))

C11_Witness ==
  /\ Done
  /\ Threw(1)
  /\ outcome.state = "fulfilled"
  /\ Result = TypeError

\* C13: a sequence and a template of different lengths never match,
\* whichever is longer: a proper prefix of a template and an extension of
\* a template are both rejected by sequence_fits_pattern.
PrefixFits(S, T, n) ==
  \A i \in 1..n : S[i].name = T[i][1].name /\ action_fits_pattern(S[i], T[i])

C13_DifferentLengthsNeverFit ==
  \A k \in Scenarios : \A t \in 1..Len(valid_sequences) :
    Len(sequence[k]) # Len(valid_sequences[t]) =>
      sequence_fits_pattern(sequence[k], valid_sequences[t]) = "false"

C13_Witness ==
  /\ \E k \in Scenarios : \E t \in 1..Len(valid_sequences) :
       /\ Len(sequence[k]) >= 1
       /\ Len(sequence[k]) < Len(valid_sequences[t])
       /\ PrefixFits(sequence[k], valid_sequences[t], Len(sequence[k]))
       /\ verdict[k] = "false" /\ seen[k] = sequence[k]
  /\ \E k \in Scenarios : \E t \in 1..Len(valid_sequences) :
       /\ Len(valid_sequences[t]) >= 1
       /\ Len(sequence[k]) > Len(valid_sequences[t])
       /\ PrefixFits(sequence[k], valid_sequences[t], Len(valid_sequences[t]))
       /\ verdict[k] = "false" /\ seen[k] = sequence[k]

\* C14: for a template entry that lists no outcomes, a call record of that
\* action fits whatever outcome it took: action_fits_pattern is true for
\* every outcome of the action.
C14_UnconstrainedEntryFitsAnyOutcome ==
  \A t \in 1..Len(valid_sequences) : \A i \in 1..Len(valid_sequences[t]) :
    LET valid_action == valid_sequences[t][i]
    IN Len(valid_action) = 1 =>
         /\ \A o \in Range(valid_action[1].outcomes) :
              action_fits_pattern([name |-> valid_action[1].name, outcome |-> o],
                                  valid_action)
         /\ \A k \in Scenarios : \A j \in 1..Len(perms[k]) :
              perms[k][j].name = valid_action[1].name =>
                action_fits_pattern(perms[k][j], valid_action)

C14_Witness ==
  \E k \in Scenarios : \E t \in 1..Len(valid_sequences) :
    /\ verdict[k] = "true"
    /\ Len(seen[k]) = 1
    /\ seen[k][1].outcome = fail
    /\ Len(valid_sequences[t]) = 1
    /\ Len(valid_sequences[t][1]) = 1

\* C17: every invocation of a tracked callable appends exactly one record
\* to its scenario's sequence, before the outcome is evaluated: the
\* sequence lists every attempted call in call order, including calls
\* whose outcome throws or rejects and repeated calls of one action.
C17_EveryAttemptedCallIsRecorded ==
  \A k \in Scenarios :
    /\ Len(sequence[k]) = Len(called[k])
    /\ \A j \in 1..Len(called[k]) : sequence[k][j] = perms[k][called[k][j]]

C17_Witness ==
  \E k \in Scenarios :
    /\ called[k] = <<1, 1>>
    /\ Len(sequence[k]) = 2
    /\ sequence[k][1].outcome.effect = "throws"
    /\ sequence[k][2].outcome.effect = "throws"

\* C18: if an action is declared with no outcomes, no permutation is
\* generated, the pattern is never invoked and the Result is
\* {passed: true}, whatever the templates.
NoOutcomes == \E i \in 1..Len(actions) : Len(actions[i].outcomes) = 0

C18_NoOutcomesPassesTrivially ==
  NoOutcomes =>
    /\ perms = <<>>
    /\ chained = 0
    /\ failures = <<>>
    /\ Done => (Result.kind = "report" /\ Result.passed /\ Result.description = <<>>)

C18_Witness ==
  /\ NoOutcomes
  /\ Len(actions) = 2
  /\ Done
  /\ Result.passed

\* C19: the pattern is invoked once for every permutation synchronously,
\* before test_correctness returns and before the validation step of any
\* scenario runs: every invocation precedes every validation.
C19_AllInvocationsBeforeAnyValidation ==
  /\ chained = Cardinality({k \in Scenarios : Started(k)})
  /\ returned => \A k \in Scenarios : Started(k)
  /\ settled > 0 => returned
  /\ \A k \in Scenarios : Validated(k) => (returned /\ \A j \in Scenarios : Started(j))

C19_Witness ==
  /\ NPerms = 2
  /\ Validated(1)
  /\ ~Validated(2)
  /\ Unsettled(1) /\ Unsettled(2)

\* C20: once the validation step of scenario k throws, the validation step
\* of every later scenario is skipped, no further failure entry is
\* recorded, and the entries recorded for the scenarios before k are not
\* part of the Result.
C20_FaultSkipsTheRest ==
  \A k \in Scenarios :
    Threw(k) =>
      /\ \A j \in Scenarios : j > k => ~Validated(j)
      /\ Len(failures) = Cardinality({j \in Scenarios : j < k /\ verdict[j] = "false"})
      /\ Done => (Result.kind = "error" /\ Result.description = <<>>)

C20_Witness ==
  /\ Done
  /\ NPerms = 3
  /\ verdict = <<"false", "throw", "none">>
  /\ Len(failures) = 1
  /\ Result = TypeError

\* C15: all_permutations invokes the callback exactly c_1 * ... * c_N
\* times (once, with the empty permutation, when there is no action; never
\* when some action has no outcome); each permutation has length N and its
\* i-th entry pairs the i-th declared action with one of that action's own
\* outcomes; no combination is delivered twice and none is omitted.
RECURSIVE Product(_)
Product(as) ==
  IF Len(as) = 0 THEN 1 ELSE Len(as[1].outcomes) * Product(Tail(as))

Combinations ==
  { [i \in 1..Len(actions) |-> [name |-> actions[i].name, outcome |-> actions[i].outcomes[c[i]]]]
    : c \in { f \in [1..Len(actions) -> 1..MaxOutcomes + 1] :
                \A i \in 1..Len(actions) : f[i] <= Len(actions[i].outcomes) } }

C15_OnePermutationPerCombination ==
  /\ NPerms = Product(actions)
  /\ chained = Cardinality({k \in Scenarios : Started(k)})
  /\ returned => chained = Product(actions)
  /\ \A k \in Scenarios :
       /\ Len(perms[k]) = Len(actions)
       /\ \A i \in 1..Len(actions) :
            /\ perms[k][i].name = actions[i].name
            /\ perms[k][i].outcome \in Range(actions[i].outcomes)
  /\ Cardinality(Range(perms)) = Len(perms)
  /\ Range(perms) = Combinations

C15_Witness ==
  /\ Len(actions) = 3
  /\ Len(actions[1].outcomes) = 2
  /\ Len(actions[2].outcomes) = 1
  /\ Len(actions[3].outcomes) = 2
  /\ returned
  /\ chained = 4

\* C16: all_permutations delivers the permutations in nested lexicographic
\* order, the first action's outcome varying slowest and the last action's
\* fastest, and the scenarios are run, validated and reported in exactly
\* this order.
Index(a, o) == CHOOSE c \in 1..Len(a.outcomes) : a.outcomes[c] = o

RECURSIVE Rank(_, _)
Rank(permutation, i) ==
  IF i = 0 THEN 0
  ELSE Rank(permutation, i - 1) * Len(actions[i].outcomes)
       + (Index(actions[i], permutation[i].outcome) - 1)

C16_LexicographicOrder ==
  /\ \A k \in Scenarios : Rank(perms[k], Len(actions)) = k - 1
  /\ \A k \in Scenarios : Started(k) <=> k <= chained
  /\ \A k \in Scenarios : Validated(k) <=> 2 * k <= settled
  /\ Len(failures) = Cardinality({k \in Scenarios : Validated(k)})
  /\ \A k \in 1..Len(failures) :
       failures[k] = failure_entry(perms[k], <<>>)

C16_Witness ==
  /\ Len(actions) = 2
  /\ Len(failures) = 4
  /\ failures[1].scenario = << <<"A", "ok">>, <<"B", "ok">> >>
  /\ failures[2].scenario = << <<"A", "ok">>, <<"B", "fail">> >>
  /\ failures[3].scenario = << <<"A", "fail">>, <<"B", "ok">> >>
  /\ failures[4].scenario = << <<"A", "fail">>, <<"B", "fail">> >>

\* C12: test_correctness carries no state from one call to the next: the
\* failures of one call never show up in another, and a second call with
\* the same arguments whose pattern behaves the same (its validations see
\* the same sequences) yields the same Result.
C12_CallsAreIndependent ==
  /\ Len(failures) = Cardinality({k \in Scenarios : verdict[k] = "false"})
  /\ \A j \in 1..Len(failures) : \E k \in Scenarios :
       verdict[k] = "false" /\ failures[j] = failure_entry(perms[k], seen[k])
  /\ (again /\ Done /\ seen = previous.seen) => Result = previous.result

C12_Witness ==
  /\ again
  /\ Done
  /\ seen = previous.seen
  /\ Result = previous.result
  /\ ~Result.passed
  /\ Len(Result.description) = 1

====
